---- MODULE Spec2Model ----
(***************************************************************************)
(* Model of vegdetect.py: the display functions, compute_ndvi, the two     *)
(* NDVI renders and the __main__ driver.                                   *)
(*                                                                         *)
(* A band array is a sequence of rows, each a sequence of samples.         *)
(* A float64 value is a record: cls = "fin" with the value n/d in lowest   *)
(* terms (d > 0), or cls = "nan" / "inf" / "ninf".  The samples are small  *)
(* integers, which float64 holds exactly; a quotient of two of them is     *)
(* named by its exact rational, which stands for the float64 nearest to    *)
(* it (rounding is monotone and fixes 0, 1 and -1).                        *)
(***************************************************************************)
EXTENDS Integers, Sequences, FiniteSets, TLC

VARIABLES raster, pc, handles, red, nir, ndvi, figure, files, log, error, first

vars == <<raster, pc, handles, red, nir, ndvi, figure, files, log, error, first>>

(* ---------------------------- bounds ----------------------------------- *)
MaxRows == 2
MaxCols == 2
MaxPixels == 4
MaxBands == 4

(* ------------------------- program constants --------------------------- *)
RedBand == 3
NirBand == 4

(* ------------------------------ floats --------------------------------- *)
Abs(x) == IF x < 0 THEN -x ELSE x

RECURSIVE GCD(_, _)
GCD(a, b) == IF b = 0 THEN a ELSE GCD(b, a % b)

Fin(n, d) ==
    LET s == IF d < 0 THEN -1 ELSE 1
        g == GCD(Abs(n), Abs(d))
    IN  [cls |-> "fin", n |-> (s * n) \div g, d |-> (s * d) \div g]

NaN == [cls |-> "nan", n |-> 0, d |-> 0]
PosInf == [cls |-> "inf", n |-> 0, d |-> 0]
NegInf == [cls |-> "ninf", n |-> 0, d |-> 0]

IsFinite(x) == x.cls = "fin"

\* ndarray.astype(float) of one integer sample
AsFloat(v) == Fin(v, 1)

FAdd(a, b) == Fin(a.n * b.d + b.n * a.d, a.d * b.d)

\* operands of the subtraction exchanged
FSubSwapped(a, b) == Fin(b.n * a.d - a.n * b.d, a.d * b.d)

FSub(a, b) == Fin(a.n * b.d - b.n * a.d, a.d * b.d)

\* a division guarded against a zero divisor
FDivGuarded(a, b) ==
    IF b.n = 0 THEN Fin(0, 1) ELSE Fin(a.n * b.d, a.d * b.n)

\* numpy true division of two finite floats: x/0 is nan or +-inf, no raise
FDiv(a, b) ==
    IF b.n = 0
    THEN IF a.n = 0 THEN NaN ELSE IF a.n > 0 THEN PosInf ELSE NegInf
    ELSE Fin(a.n * b.d, a.d * b.n)

(* ------------------------------ arrays --------------------------------- *)
NoArray == << >>

Height(g) == Len(g)
Width(g) == Len(g[1])
Shape(g) == <<Height(g), Width(g)>>

AsFloatGrid(g) == [r \in 1..Height(g) |-> [c \in 1..Width(g) |-> AsFloat(g[r][c])]]

\* numpy broadcasting of two 2-D shapes
Broadcastable(a, b) ==
    /\ (Height(a) = Height(b) \/ Height(a) = 1 \/ Height(b) = 1)
    /\ (Width(a) = Width(b) \/ Width(a) = 1 \/ Width(b) = 1)

Max(x, y) == IF x >= y THEN x ELSE y

\* element (r, c) of g once broadcast to a larger shape
At(g, r, c) == g[IF Height(g) = 1 THEN 1 ELSE r][IF Width(g) = 1 THEN 1 ELSE c]

\* numerator and denominator exchanged
PixelNdviInverted(r, n) == FDiv(FAdd(n, r), FSub(n, r))

\* (nir - red) / (nir + red) of one pixel
PixelNdvi(r, n) == FDiv(FSub(n, r), FAdd(n, r))

\* floor division in place of true division
NdviExprFloorDiv(redF, nirF) ==
    [r \in 1..Max(Height(redF), Height(nirF)) |->
        [c \in 1..Max(Width(redF), Width(nirF)) |->
            LET q == PixelNdvi(At(redF, r, c), At(nirF, r, c))
            IN  IF IsFinite(q) THEN Fin(q.n \div q.d, 1) ELSE q]]

\* ndvi = (nir - red) / (nir + red), elementwise
NdviExpr(redF, nirF) ==
    [r \in 1..Max(Height(redF), Height(nirF)) |->
        [c \in 1..Max(Width(redF), Width(nirF)) |->
            PixelNdvi(At(redF, r, c), At(nirF, r, c))]]

(* ------------------------------ raster --------------------------------- *)
\* (red, nir) sample pairs a pixel is drawn from; the negative samples are
\* those of a signed raster dtype
Palette ==
    { <<100, 200>>, <<50, 50>>, <<0, 100>>, <<100, 100>>, <<0, 0>>,
      <<100, 0>>, <<-50, 50>>, <<50, -50>>, <<-50, 100>> }

FillSample == 50

Shapes == { s \in (1..MaxRows) \X (1..MaxCols) : s[1] * s[2] <= MaxPixels }

PairGrids == UNION { [1..s[1] -> [1..s[2] -> Palette]] : s \in Shapes }

\* the dataset rasterio.open yields: count bands of one common shape
MkRaster(count, pg) ==
    [count |-> count,
     bands |-> [b \in 1..count |->
                  [r \in 1..Height(pg) |->
                     [c \in 1..Width(pg) |->
                        IF b = RedBand THEN pg[r][c][1]
                        ELSE IF b = NirBand THEN pg[r][c][2]
                        ELSE FillSample]]]]

Rasters == { MkRaster(n, pg) : n \in 1..MaxBands, pg \in PairGrids }

\* src.read(i): the band array, or IndexError when i is beyond the band count
HasBand(src, i) == i \in 1..src.count
Read(src, i) == src.bands[i]

(* ------------------------------ handles -------------------------------- *)
\* rasterio.open(image_path) entered by a with statement
Acquire(hs, op) == Append(hs, [op |-> op, open |-> TRUE])

\* an open without a with statement: nothing closes the handle
ReleaseNothing(hs) == hs

\* the with statement's exit: closes the handle it opened
Release(hs) == [hs EXCEPT ![Len(hs)].open = FALSE]

OpenHandles(hs) == { i \in 1..Len(hs) : hs[i].open }

(* ------------------------------ figures -------------------------------- *)
Auto == [cls |-> "auto", n |-> 0, d |-> 0]
NoLine == [cls |-> "none", n |-> 0, d |-> 0]
NoFigure == [title |-> "", cmap |-> "", bad |-> "", vmin |-> Auto,
             vmax |-> Auto, hline |-> NoLine, data |-> NoArray]

OriginalFigure(src) ==
    [title |-> "Original Image", cmap |-> "rgb", bad |-> "none",
     vmin |-> Auto, vmax |-> Auto, hline |-> NoLine,
     data |-> <<Read(src, 1), Read(src, 2), Read(src, 3)>>]

ChannelsFigure(src) ==
    [title |-> "Color Channels", cmap |-> "gray", bad |-> "none",
     vmin |-> Auto, vmax |-> Auto, hline |-> NoLine,
     data |-> [i \in 1..4 |-> Read(src, i)]]

FalseColorFigure(src) ==
    [title |-> "False Color Image", cmap |-> "rgb", bad |-> "none",
     vmin |-> Auto, vmax |-> Auto, hline |-> NoLine,
     data |-> <<Read(src, 4), Read(src, 3), Read(src, 2)>>]

\* a render that replaces the non-finite values before drawing
DisplayNdviFigureCleaned(arr, cmap) ==
    [title |-> "NDVI Visualization", cmap |-> cmap, bad |-> "none",
     vmin |-> Auto, vmax |-> Auto, hline |-> NoLine,
     data |-> [r \in 1..Height(arr) |-> [c \in 1..Width(arr) |->
                 IF IsFinite(arr[r][c]) THEN arr[r][c] ELSE Fin(0, 1)]]]

DisplayNdviFigure(arr, cmap) ==
    [title |-> "NDVI Visualization", cmap |-> cmap, bad |-> "none",
     vmin |-> Auto, vmax |-> Auto, hline |-> NoLine, data |-> arr]

\* a render that masks the pixels below the threshold and draws the line at it
ApplyNdviThresholdMasked(arr, threshold) ==
    [title |-> "NDVI Threshold", cmap |-> "bwr", bad |-> "gray",
     vmin |-> Fin(-1, 1), vmax |-> Fin(1, 1), hline |-> threshold,
     data |-> [r \in 1..Height(arr) |-> [c \in 1..Width(arr) |->
                 IF IsFinite(arr[r][c]) /\ arr[r][c].n * threshold.d < threshold.n * arr[r][c].d
                 THEN NaN ELSE arr[r][c]]]]

ApplyNdviThresholdFigure(arr, threshold) ==
    [title |-> "NDVI Threshold", cmap |-> "bwr", bad |-> "gray",
     vmin |-> Fin(-1, 1), vmax |-> Fin(1, 1), hline |-> Fin(1, 2),
     data |-> arr]

\* the threshold the driver passes
Threshold == Fin(1, 2)

\* colours imshow gives a fixed-scale figure: a non-finite value is masked
\* and drawn in the bad colour, a finite one is normalised to [vmin, vmax]
\* and looked up in the 256 entries of the colormap (clipped at the ends)
ColourOf(fig, v) ==
    IF ~IsFinite(v) THEN [name |-> fig.bad, idx |-> -1]
    ELSE LET x == FDiv(FSub(v, fig.vmin), FSub(fig.vmax, fig.vmin))
             k == (x.n * 256) \div x.d
         IN  [name |-> fig.cmap,
              idx |-> IF k < 0 THEN 0 ELSE IF k > 255 THEN 255 ELSE k]

PixelColours(fig) ==
    [r \in 1..Height(fig.data) |->
        [c \in 1..Width(fig.data) |-> ColourOf(fig, fig.data[r][c])]]

\* plt.savefig(save_path)
SaveFig(fs, path, fig) == (path :> fig) @@ fs

(* ------------------------------ driver --------------------------------- *)
\* the order of the calls in __main__
Steps == <<"display_original_image", "display_color_channels",
           "display_false_color_image", "compute_ndvi", "display_ndvi",
           "apply_ndvi_threshold">>

\* a driver that catches the exception and goes on with the next call
RaiseCaught(err) ==
    /\ pc' = CASE pc = "orig_plot" -> "chan_open"
              [] pc = "chan_plot" -> "fc_open"
              [] pc = "fc_plot" -> "ndvi_open"
              [] OTHER -> "display_ndvi"
    /\ error' = err
    /\ handles' = Release(handles)

\* an exception leaves the with block (the handle is released on the way
\* out) and, uncaught, ends the process
RaiseInWith(err) ==
    /\ pc' = "failed"
    /\ error' = err
    /\ handles' = Release(handles)

\* rasterio.open fails: nothing was acquired
OpenFails ==
    /\ pc' = "failed"
    /\ error' = "FileAccessError"
    /\ UNCHANGED handles

\* ---- display_original_image(image_path, "original_image.png")
OrigOpen ==
    /\ pc = "orig_open"
    /\ \/ /\ handles' = Acquire(handles, "display_original_image")
          /\ pc' = "orig_plot"
          /\ UNCHANGED error
       \/ OpenFails
    /\ UNCHANGED <<raster, red, nir, ndvi, figure, files, log, first>>

OrigPlot ==
    /\ pc = "orig_plot"
    /\ IF \A i \in {1, 2, 3} : HasBand(raster, i)
       THEN \/ /\ figure' = OriginalFigure(raster)
               /\ pc' = "orig_save"
               /\ UNCHANGED <<handles, error>>
            \/ /\ RaiseInWith("PlotError")
               /\ UNCHANGED figure
       ELSE /\ RaiseInWith("OutOfRangeError")
            /\ UNCHANGED figure
    /\ UNCHANGED <<raster, red, nir, ndvi, files, log, first>>

OrigSave ==
    /\ pc = "orig_save"
    /\ files' = SaveFig(files, "original_image.png", figure)
    /\ log' = Append(log, "display_original_image")
    /\ handles' = Release(handles)
    /\ pc' = "chan_open"
    /\ UNCHANGED <<raster, red, nir, ndvi, figure, error, first>>

\* ---- display_color_channels(image_path, "color_channels.png")
ChanOpen ==
    /\ pc = "chan_open"
    /\ \/ /\ handles' = Acquire(handles, "display_color_channels")
          /\ pc' = "chan_plot"
          /\ UNCHANGED error
       \/ OpenFails
    /\ UNCHANGED <<raster, red, nir, ndvi, figure, files, log, first>>

ChanPlot ==
    /\ pc = "chan_plot"
    /\ IF \A i \in 1..4 : HasBand(raster, i)
       THEN \/ /\ figure' = ChannelsFigure(raster)
               /\ pc' = "chan_save"
               /\ UNCHANGED <<handles, error>>
            \/ /\ RaiseInWith("PlotError")
               /\ UNCHANGED figure
       ELSE /\ RaiseInWith("OutOfRangeError")
            /\ UNCHANGED figure
    /\ UNCHANGED <<raster, red, nir, ndvi, files, log, first>>

ChanSave ==
    /\ pc = "chan_save"
    /\ files' = SaveFig(files, "color_channels.png", figure)
    /\ log' = Append(log, "display_color_channels")
    /\ handles' = Release(handles)
    /\ pc' = "fc_open"
    /\ UNCHANGED <<raster, red, nir, ndvi, figure, error, first>>

\* ---- display_false_color_image(image_path, "false_color_image.png")
FcOpen ==
    /\ pc = "fc_open"
    /\ \/ /\ handles' = Acquire(handles, "display_false_color_image")
          /\ pc' = "fc_plot"
          /\ UNCHANGED error
       \/ OpenFails
    /\ UNCHANGED <<raster, red, nir, ndvi, figure, files, log, first>>

FcPlot ==
    /\ pc = "fc_plot"
    /\ IF \A i \in {4, 3, 2} : HasBand(raster, i)
       THEN \/ /\ figure' = FalseColorFigure(raster)
               /\ pc' = "fc_save"
               /\ UNCHANGED <<handles, error>>
            \/ /\ RaiseInWith("PlotError")
               /\ UNCHANGED figure
       ELSE /\ RaiseInWith("OutOfRangeError")
            /\ UNCHANGED figure
    /\ UNCHANGED <<raster, red, nir, ndvi, files, log, first>>

FcSave ==
    /\ pc = "fc_save"
    /\ files' = SaveFig(files, "false_color_image.png", figure)
    /\ log' = Append(log, "display_false_color_image")
    /\ handles' = Release(handles)
    /\ pc' = "ndvi_open"
    /\ UNCHANGED <<raster, red, nir, ndvi, figure, error, first>>

\* ---- ndvi = compute_ndvi(image_path)
NdviOpen ==
    /\ pc = "ndvi_open"
    /\ \/ /\ handles' = Acquire(handles, "compute_ndvi")
          /\ pc' = "ndvi_read"
          /\ UNCHANGED error
       \/ OpenFails
    /\ UNCHANGED <<raster, red, nir, ndvi, figure, files, log, first>>

\* red = src.read(3).astype(float); nir = src.read(4).astype(float)
NdviRead ==
    /\ pc = "ndvi_read"
    /\ IF HasBand(raster, RedBand) /\ HasBand(raster, NirBand)
       THEN /\ red' = AsFloatGrid(Read(raster, RedBand))
            /\ nir' = AsFloatGrid(Read(raster, NirBand))
            /\ pc' = "ndvi_compute"
            /\ UNCHANGED <<handles, error>>
       ELSE /\ RaiseInWith("OutOfRangeError")
            /\ UNCHANGED <<red, nir>>
    /\ UNCHANGED <<raster, ndvi, figure, files, log, first>>

\* the computation done in place on the dataset's red band
NdviComputeInPlace ==
    /\ pc = "ndvi_compute"
    /\ ndvi' = NdviExpr(red, nir)
    /\ raster' = [raster EXCEPT !.bands[RedBand] = Read(raster, NirBand)]
    /\ handles' = Release(handles)
    /\ pc' = "ndvi_return"
    /\ UNCHANGED <<error, red, nir, figure, files, log, first>>

\* ndvi = (nir - red) / (nir + red), then the with block ends; operands
\* that cannot be broadcast together raise ValueError
NdviCompute ==
    /\ pc = "ndvi_compute"
    /\ IF Broadcastable(red, nir)
       THEN /\ ndvi' = NdviExpr(red, nir)
            /\ handles' = Release(handles)
            /\ pc' = "ndvi_return"
            /\ UNCHANGED error
       ELSE /\ RaiseInWith("ValueError")
            /\ UNCHANGED ndvi
    /\ UNCHANGED <<raster, red, nir, figure, files, log, first>>

\* return ndvi
NdviReturn ==
    /\ pc = "ndvi_return"
    /\ log' = Append(log, "compute_ndvi")
    /\ red' = NoArray
    /\ nir' = NoArray
    /\ pc' = "display_ndvi"
    /\ UNCHANGED <<raster, handles, ndvi, figure, files, error, first>>

\* ---- display_ndvi(ndvi, "ndvi_visualization.png")
DisplayNdvi ==
    /\ pc = "display_ndvi"
    /\ \/ /\ figure' = DisplayNdviFigure(ndvi, "RdYlGn")
          /\ files' = SaveFig(files, "ndvi_visualization.png", figure')
          /\ log' = Append(log, "display_ndvi")
          /\ pc' = "apply_ndvi_threshold"
          /\ UNCHANGED error
       \/ /\ pc' = "failed"
          /\ error' = "PlotError"
          /\ UNCHANGED <<figure, files, log>>
    /\ UNCHANGED <<raster, handles, red, nir, ndvi, first>>

\* ---- apply_ndvi_threshold(ndvi, 0.5, "ndvi_threshold.png")
ApplyNdviThreshold ==
    /\ pc = "apply_ndvi_threshold"
    /\ \/ /\ figure' = ApplyNdviThresholdFigure(ndvi, Threshold)
          /\ files' = SaveFig(files, "ndvi_threshold.png", figure')
          /\ log' = Append(log, "apply_ndvi_threshold")
          /\ pc' = "done"
          /\ UNCHANGED error
       \/ /\ pc' = "failed"
          /\ error' = "PlotError"
          /\ UNCHANGED <<figure, files, log>>
    /\ UNCHANGED <<raster, handles, red, nir, ndvi, first>>

Init ==
    /\ raster \in Rasters
    /\ pc = "orig_open"
    /\ handles = << >>
    /\ red = NoArray
    /\ nir = NoArray
    /\ ndvi = NoArray
    /\ figure = NoFigure
    /\ files = << >>
    /\ log = << >>
    /\ error = "none"
    /\ first = NoArray

Next ==
    \/ OrigOpen \/ OrigPlot \/ OrigSave
    \/ ChanOpen \/ ChanPlot \/ ChanSave
    \/ FcOpen \/ FcPlot \/ FcSave
    \/ NdviOpen \/ NdviRead \/ NdviCompute \/ NdviReturn
    \/ DisplayNdvi
    \/ ApplyNdviThreshold

Spec == Init /\ [][Next]_vars

(* ------------------- compute_ndvi called on its own -------------------- *)
\* a second call of compute_ndvi on the same path; the first result is kept
Recall ==
    /\ pc = "display_ndvi"
    /\ first = NoArray
    /\ first' = ndvi
    /\ pc' = "ndvi_open"
    /\ UNCHANGED <<raster, handles, red, nir, ndvi, figure, files, log, error>>

InitNdvi ==
    /\ raster \in Rasters
    /\ pc = "ndvi_open"
    /\ handles = << >>
    /\ red = NoArray
    /\ nir = NoArray
    /\ ndvi = NoArray
    /\ figure = NoFigure
    /\ files = << >>
    /\ log = << >>
    /\ error = "none"
    /\ first = NoArray

NextNdvi == NdviOpen \/ NdviRead \/ NdviCompute \/ NdviReturn \/ Recall

SpecNdvi == InitNdvi /\ [][NextNdvi]_vars

(* ------------- the NDVI expression on two arbitrary arrays ------------- *)
ExprSamples == {0, 50, 100}

FloatGrids ==
    UNION { [1..s[1] -> [1..s[2] -> {AsFloat(v) : v \in ExprSamples}]] : s \in Shapes }

NoRaster == [count |-> 0, bands |-> << >>]

InitExpr ==
    /\ raster = NoRaster
    /\ pc = "ndvi_compute"
    /\ handles = Acquire(<< >>, "compute_ndvi")
    /\ red \in FloatGrids
    /\ nir \in FloatGrids
    /\ ndvi = NoArray
    /\ figure = NoFigure
    /\ files = << >>
    /\ log = << >>
    /\ error = "none"
    /\ first = NoArray

NextExpr == NdviCompute \/ NdviReturn

SpecExpr == InitExpr /\ [][NextExpr]_vars

(* ------------------------------- claims -------------------------------- *)

\* C1 (as stated): once compute_ndvi has produced its array from a raster in
\* which no pixel has nir + red = 0, every value is finite and in [-1, 1].
C1_Original ==
    (/\ ndvi # NoArray
     /\ \A r \in 1..Height(ndvi) : \A c \in 1..Width(ndvi) :
           raster.bands[4][r][c] + raster.bands[3][r][c] # 0)
    => \A r \in 1..Height(ndvi) : \A c \in 1..Width(ndvi) :
           /\ ndvi[r][c].cls = "fin"
           /\ -ndvi[r][c].d <= ndvi[r][c].n
           /\ ndvi[r][c].n <= ndvi[r][c].d

\* C1 (amended): the same, for rasters whose red and NIR samples are all
\* non-negative: no zero-sum pixel implies every value is in [-1, 1].
C1_Amended ==
    (/\ ndvi # NoArray
     /\ \A r \in 1..Height(ndvi) : \A c \in 1..Width(ndvi) :
           /\ raster.bands[4][r][c] >= 0
           /\ raster.bands[3][r][c] >= 0
           /\ raster.bands[4][r][c] + raster.bands[3][r][c] # 0)
    => \A r \in 1..Height(ndvi) : \A c \in 1..Width(ndvi) :
           /\ ndvi[r][c].cls = "fin"
           /\ -ndvi[r][c].d <= ndvi[r][c].n
           /\ ndvi[r][c].n <= ndvi[r][c].d

\* a returned 2x2 array from non-negative samples without a zero-sum pixel,
\* holding both ends of the interval and a value strictly inside it
C1_Witness ==
    /\ pc = "display_ndvi"
    /\ Shape(ndvi) = <<2, 2>>
    /\ \A r \in 1..2 : \A c \in 1..2 :
          /\ raster.bands[4][r][c] >= 0
          /\ raster.bands[3][r][c] >= 0
          /\ raster.bands[4][r][c] + raster.bands[3][r][c] # 0
    /\ ndvi[1][1] = [cls |-> "fin", n |-> 1, d |-> 1]
    /\ ndvi[1][2] = [cls |-> "fin", n |-> -1, d |-> 1]
    /\ ndvi[2][1] = [cls |-> "fin", n |-> 1, d |-> 3]

\* C2: the array compute_ndvi produces has the shape of the bands, its value
\* at (row, column) is the quotient of nir - red by nir + red of the band-4
\* and band-3 samples at that (row, column), and on red = [[100,50],[0,100]],
\* nir = [[200,50],[100,100]] it is [[1/3, 0],[1, 0]].
C2_SameShapeAndValues ==
    ndvi # NoArray =>
        /\ Shape(ndvi) = Shape(raster.bands[3])
        /\ Shape(ndvi) = Shape(raster.bands[4])
        /\ \A r \in 1..Height(ndvi) : \A c \in 1..Width(ndvi) :
              LET rd == raster.bands[3][r][c]
                  nr == raster.bands[4][r][c]
              IN  nr + rd # 0 =>
                     /\ ndvi[r][c].cls = "fin"
                     /\ ndvi[r][c].d > 0
                     /\ ndvi[r][c].n * (nr + rd) = ndvi[r][c].d * (nr - rd)
        /\ (/\ raster.bands[3] = <<<<100, 50>>, <<0, 100>>>>
            /\ raster.bands[4] = <<<<200, 50>>, <<100, 100>>>>)
           => ndvi = << <<[cls |-> "fin", n |-> 1, d |-> 3],
                          [cls |-> "fin", n |-> 0, d |-> 1]>>,
                        <<[cls |-> "fin", n |-> 1, d |-> 1],
                          [cls |-> "fin", n |-> 0, d |-> 1]>> >>

\* compute_ndvi has returned on the 2x2 scenario raster
C2_Witness ==
    /\ pc = "display_ndvi"
    /\ ndvi # NoArray
    /\ raster.bands[3] = <<<<100, 50>>, <<0, 100>>>>
    /\ raster.bands[4] = <<<<200, 50>>, <<100, 100>>>>

\* C3: per pixel, red = nir > 0 gives exactly 0, red = 0 < nir gives exactly
\* 1, and nir = 0 < red gives exactly -1.
C3_ExactValues ==
    ndvi # NoArray =>
        \A r \in 1..Height(ndvi) : \A c \in 1..Width(ndvi) :
            LET rd == raster.bands[3][r][c]
                nr == raster.bands[4][r][c]
            IN  /\ (rd = nr /\ rd > 0) => ndvi[r][c] = [cls |-> "fin", n |-> 0, d |-> 1]
                /\ (rd = 0 /\ nr > 0) => ndvi[r][c] = [cls |-> "fin", n |-> 1, d |-> 1]
                /\ (nr = 0 /\ rd > 0) => ndvi[r][c] = [cls |-> "fin", n |-> -1, d |-> 1]

\* a returned array whose raster holds all three kinds of pixel
C3_Witness ==
    /\ pc = "display_ndvi"
    /\ ndvi # NoArray
    /\ \E r \in 1..Height(ndvi) : \E c \in 1..Width(ndvi) :
          /\ raster.bands[3][r][c] = raster.bands[4][r][c]
          /\ raster.bands[3][r][c] > 0
    /\ \E r \in 1..Height(ndvi) : \E c \in 1..Width(ndvi) :
          /\ raster.bands[3][r][c] = 0
          /\ raster.bands[4][r][c] > 0
    /\ \E r \in 1..Height(ndvi) : \E c \in 1..Width(ndvi) :
          /\ raster.bands[4][r][c] = 0
          /\ raster.bands[3][r][c] > 0

\* C4: a pixel with red + nir = 0 makes compute_ndvi raise nothing and gives
\* a non-finite value at that pixel, every other pixel keeps its quotient,
\* and display_ndvi and apply_ndvi_threshold are both handed that array as it
\* is, with neither mask nor guard applied.
C4_ZeroSumNonFinite ==
    /\ error # "ValueError"
    /\ pc = "failed" => red = NoArray
    /\ ndvi # NoArray =>
          /\ \A r \in 1..Height(ndvi) : \A c \in 1..Width(ndvi) :
                LET rd == raster.bands[3][r][c]
                    nr == raster.bands[4][r][c]
                IN  /\ nr + rd = 0 => ndvi[r][c].cls \in {"nan", "inf", "ninf"}
                    /\ nr + rd # 0 =>
                          /\ ndvi[r][c].cls = "fin"
                          /\ ndvi[r][c].n * (nr + rd) = ndvi[r][c].d * (nr - rd)
          /\ "ndvi_visualization.png" \in DOMAIN files
                => files["ndvi_visualization.png"].data = ndvi
          /\ "ndvi_threshold.png" \in DOMAIN files
                => files["ndvi_threshold.png"].data = ndvi

\* the run has ended after both renders of an array that holds a zero-sum
\* pixel next to an ordinary one
C4_Witness ==
    /\ pc = "done"
    /\ "ndvi_visualization.png" \in DOMAIN files
    /\ "ndvi_threshold.png" \in DOMAIN files
    /\ \E r \in 1..Height(ndvi) : \E c \in 1..Width(ndvi) :
          /\ raster.bands[4][r][c] + raster.bands[3][r][c] = 0
          /\ ndvi[r][c].cls = "nan"
    /\ \E r \in 1..Height(ndvi) : \E c \in 1..Width(ndvi) :
          /\ raster.bands[4][r][c] + raster.bands[3][r][c] = 0
          /\ ndvi[r][c].cls = "inf"
    /\ \E r \in 1..Height(ndvi) : \E c \in 1..Width(ndvi) :
          raster.bands[4][r][c] + raster.bands[3][r][c] # 0

Thresholds == { Fin(-1, 1), Fin(0, 1), Fin(1, 4), Fin(1, 2), Fin(1, 1) }

C7_FixedOrder ==
    /\ Len(log) <= Len(Steps)
    /\ \A i \in 1..Len(log) : log[i] = Steps[i]
    /\ Cardinality(DOMAIN files) = Cardinality({i \in 1..Len(log) : log[i] # "compute_ndvi"})
    /\ "ndvi_visualization.png" \in DOMAIN files =>
          (Len(log) >= 5 /\ files["ndvi_visualization.png"].data = ndvi)
    /\ "ndvi_threshold.png" \in DOMAIN files =>
          (Len(log) >= 6 /\ files["ndvi_threshold.png"].data = ndvi)
    /\ (Len(log) >= 4) = (ndvi # NoArray /\ pc \notin {"ndvi_return"})
    /\ pc = "done" =>
          /\ log = Steps
          /\ error = "none"
          /\ DOMAIN files = {"original_image.png", "color_channels.png",
                             "false_color_image.png", "ndvi_visualization.png",
                             "ndvi_threshold.png"}

\* a failure-free run has ended
C7_Witness ==
    /\ pc = "done"
    /\ error = "none"
    /\ Len(log) = 6
    /\ Cardinality(DOMAIN files) = 5

\* C8: the step in which the raster fails to open or a band is out of range
\* ends the run at once: it writes no file and completes no step, and from
\* then on nothing changes, so the files written before it remain and no
\* later step runs.
C8_AbortOnFirstFailure ==
    [][ /\ error \notin {"FileAccessError", "OutOfRangeError"}
        /\ (error' \in {"FileAccessError", "OutOfRangeError"} =>
              (pc' = "failed" /\ files' = files /\ log' = log)) ]_vars

\* a band-count failure after the first output file was written
C8_Witness ==
    /\ pc = "failed"
    /\ error = "OutOfRangeError"
    /\ DOMAIN files = {"original_image.png"}
    /\ log = <<"display_original_image">>

\* C9: at most one raster handle is open at any time; inside an operation
\* that reads the raster the open handle is the one that operation opened;
\* between operations, in the two NDVI renders and once the run has ended or
\* failed, no handle is open; each operation has opened at most one handle.
C9_ScopedHandles ==
    /\ Cardinality(OpenHandles(handles)) <= 1
    /\ \A i \in 1..Len(handles) : \A j \in 1..Len(handles) :
          handles[i].op = handles[j].op => i = j
    /\ pc \in {"orig_plot", "orig_save"} =>
          /\ OpenHandles(handles) = {Len(handles)}
          /\ handles[Len(handles)].op = "display_original_image"
    /\ pc \in {"chan_plot", "chan_save"} =>
          /\ OpenHandles(handles) = {Len(handles)}
          /\ handles[Len(handles)].op = "display_color_channels"
    /\ pc \in {"fc_plot", "fc_save"} =>
          /\ OpenHandles(handles) = {Len(handles)}
          /\ handles[Len(handles)].op = "display_false_color_image"
    /\ pc \in {"ndvi_read", "ndvi_compute"} =>
          /\ OpenHandles(handles) = {Len(handles)}
          /\ handles[Len(handles)].op = "compute_ndvi"
    /\ pc \in {"orig_open", "chan_open", "fc_open", "ndvi_open", "ndvi_return",
               "display_ndvi", "apply_ndvi_threshold", "done", "failed"} =>
          OpenHandles(handles) = {}

\* a plotting step raised inside the third with block: three handles were
\* opened, all are closed
C9_Witness ==
    /\ pc = "failed"
    /\ error = "PlotError"
    /\ Len(handles) = 3
    /\ OpenHandles(handles) = {}

\* C10: no step of compute_ndvi changes the raster, the saved files or the
\* current figure, and a second call on the same raster produces the array
\* the first call returned.
C10_PureAndDeterministic ==
    [][ /\ raster' = raster
        /\ files' = files
        /\ figure' = figure
        /\ (first # NoArray /\ pc' = "ndvi_return") => ndvi' = first ]_vars

\* the second call has returned
C10_Witness ==
    /\ first # NoArray
    /\ pc = "display_ndvi"
    /\ Len(log) = 2
    /\ ndvi = first

====
